---- MODULE Spec2Model ----
(***************************************************************************)
(* Model of src-tauri/src/lib.rs: the `greet` command (a format! call) and *)
(* `run`, the builder chain that registers three plugins and one invoke    *)
(* handler and then runs the Tauri event loop, unwrapping its Result with  *)
(* expect.                                                                 *)
(*                                                                         *)
(* Text is a sequence of one-character strings, so that formatting is      *)
(* computed character by character and not assumed.                        *)
(***************************************************************************)
EXTENDS Naturals, Sequences, FiniteSets, TLC

\* ---------------------------------------------------------------- bounds
\* Longest argument handed to greet by the unit harness (GreetSpec).
MaxLen == 3
\* Number of IPC requests the front end posts in one run of the process.
MaxInvokes == 2

\* Characters of the harness: a letter, a blank, markup, format
\* metacharacters and a control character.
Chars == {"a", " ", "<", "{", "}", "\n"}

Strings(S, n) == UNION {[1..k -> S] : k \in 0..n}

\* ------------------------------------------------------------- format!
\* The format string of lib.rs line 4, character by character.
Template ==
  << "H","e","l","l","o",","," ","{","}","!"," ",
     "Y","o","u","'","v","e"," ","b","e","e","n"," ",
     "g","r","e","e","t","e","d"," ","f","r","o","m"," ",
     "R","u","s","t","!" >>

\* The `{}` placeholder carries no width and no precision.
NoSpec == [hasWidth |-> FALSE, width |-> 0, hasPrec |-> FALSE, prec |-> 0]

Spaces(n) == [i \in 1..n |-> " "]

\* <str as Display>::fmt is Formatter::pad: truncate to the precision if
\* there is one, pad on the right to the width if there is one, and
\* write the text as it is otherwise.
DisplayStr(s, spec) ==
  LET cut == IF spec.hasPrec /\ Len(s) > spec.prec
             THEN SubSeq(s, 1, spec.prec) ELSE s
  IN  IF spec.hasWidth /\ Len(cut) < spec.width
      THEN cut \o Spaces(spec.width - Len(cut))
      ELSE cut

\* Length of the literal piece of fmt that starts at position i: the
\* characters from i up to the next brace.
LiteralRun(fmt, i) ==
  LET braces == {j \in i..Len(fmt) : fmt[j] \in {"{", "}"}}
  IN  IF braces = {} THEN Len(fmt) - i + 1
      ELSE (CHOOSE j \in braces : \A k \in braces : j <= k) - i

\* The formatting loop from position i of fmt on, with args[k] the next
\* argument: a literal piece is copied, "{{" and "}}" are escapes of one
\* brace, and "{}" consumes the next argument, which is written through
\* Display and never scanned again. (A brace that is neither does not
\* compile; the template has none.)
RECURSIVE FormatFrom(_, _, _, _)
FormatFrom(fmt, i, args, k) ==
  IF i > Len(fmt) THEN << >>
  ELSE IF LiteralRun(fmt, i) > 0
    THEN SubSeq(fmt, i, i + LiteralRun(fmt, i) - 1)
           \o FormatFrom(fmt, i + LiteralRun(fmt, i), args, k)
  ELSE IF i < Len(fmt) /\ fmt[i] = "{" /\ fmt[i + 1] = "{"
    THEN <<"{">> \o FormatFrom(fmt, i + 2, args, k)
  ELSE IF i < Len(fmt) /\ fmt[i] = "}" /\ fmt[i + 1] = "}"
    THEN <<"}">> \o FormatFrom(fmt, i + 2, args, k)
  ELSE IF i < Len(fmt) /\ fmt[i] = "{" /\ fmt[i + 1] = "}"
    THEN DisplayStr(args[k], NoSpec) \o FormatFrom(fmt, i + 2, args, k + 1)
  ELSE <<fmt[i]>> \o FormatFrom(fmt, i + 1, args, k)

\* format!(fmt, args...)
Format(fmt, args) == FormatFrom(fmt, 1, args, 1)

\* Variant of greet: the argument is trimmed before it is formatted.
IsSpace(c) == c \in {" ", "\n"}
RECURSIVE TrimStart(_)
TrimStart(s) == IF s # << >> /\ IsSpace(Head(s)) THEN TrimStart(Tail(s)) ELSE s
RECURSIVE TrimEnd(_)
TrimEnd(s) ==
  IF s # << >> /\ IsSpace(s[Len(s)]) THEN TrimEnd(SubSeq(s, 1, Len(s) - 1)) ELSE s
greetTrimmed(n) == Format(Template, << TrimEnd(TrimStart(n)) >>)

\* fn greet(name: &str) -> String
greet(n) == Format(Template, <<n>>)


\* ------------------------------------------------------- program state
VARIABLES
  pc,        \* position of run(): see Positions
  plugins,   \* Builder's plugin store, in registration order
  commands,  \* names matched by the registered invoke handler
  result,    \* what Builder::run returned: "none", "Ok" or an error
  panicMsg,  \* << >> or <<expect message, error>> of the panic
  attempts,  \* how many times Builder::run was entered
  started,   \* TRUE once the event loop has been entered
  requests,  \* IPC requests posted by the front end, by id
  responses, \* id -> response the resolver sent back
  current,   \* id of the request whose greet call is on the stack, or 0
  name,      \* greet's parameter
  ret        \* greet's last return value, << >> before any return

vars == << pc, plugins, commands, result, panicMsg, attempts, started,
           requests, responses, current, name, ret >>

runtime == << pc, plugins, commands, result, panicMsg, attempts, started >>
ipc == << requests, responses, current >>

\* Lines of run() the builder chain goes through before Builder::run.
BuilderPositions == {"start", "default", "shell", "http", "opener", "handler"}
Positions ==
  BuilderPositions \cup {"event_loop", "expect", "panicked", "returned", "exited"}

\* The message handed to expect on line 17.
ExpectMsg == "error while running tauri application"

\* Errors Builder::run can return: all arise while the app is built.
Errors == {"Setup", "PluginInitialization", "Runtime"}

\* Command names the front end may ask for.
CmdNames == {"greet", "Greet", "hello"}

\* Texts the front end sends as `name`: the empty text, a plain one and
\* one that starts with a blank and holds a brace.
Names == { << >>, << "a" >>, << " ", "{" >> }

\* An IPC request: a command name and a payload that holds a text under
\* the key `name` or does not. The payload of a request for another name
\* than greet is never looked at, so one payload stands for all.
Requests ==
  [cmd : {"greet"}, hasName : {TRUE}, name : Names]
    \cup [cmd : {"greet"}, hasName : {FALSE}, name : {<< >>}]
    \cup [cmd : CmdNames \ {"greet"}, hasName : {TRUE}, name : {<< "a" >>}]

Ok(v) == [kind |-> "ok", val |-> v, err |-> "none"]
Err(e) == [kind |-> "err", val |-> << >>, err |-> e]

Init ==
  /\ pc = "start"
  /\ plugins = << >>
  /\ commands = {}
  /\ result = "none"
  /\ panicMsg = << >>
  /\ attempts = 0
  /\ started = FALSE
  /\ requests = << >>
  /\ responses = << >>
  /\ current = 0
  /\ name = << >>
  /\ ret = << >>

\* ------------------------------------------------------------- run()
\* tauri::Builder::default()
BuilderDefault ==
  /\ pc = "start"
  /\ pc' = "default"
  /\ plugins' = << >>
  /\ commands' = {}
  /\ UNCHANGED << result, panicMsg, attempts, started, ipc, name, ret >>

\* .plugin(tauri_plugin_shell::init())
PluginShell ==
  /\ pc = "default"
  /\ pc' = "shell"
  /\ plugins' = Append(plugins, "shell")
  /\ UNCHANGED << commands, result, panicMsg, attempts, started, ipc, name, ret >>

\* .plugin(tauri_plugin_http::init())
PluginHttp ==
  /\ pc = "shell"
  /\ pc' = "http"
  /\ plugins' = Append(plugins, "http")
  /\ UNCHANGED << commands, result, panicMsg, attempts, started, ipc, name, ret >>

\* .plugin(tauri_plugin_opener::init())
PluginOpener ==
  /\ pc = "http"
  /\ pc' = "opener"
  /\ plugins' = Append(plugins, "opener")
  /\ UNCHANGED << commands, result, panicMsg, attempts, started, ipc, name, ret >>

\* Variant of InvokeHandler: the builder goes on without a handler.
InvokeHandlerUnset ==
  /\ pc = "opener"
  /\ pc' = "handler"
  /\ UNCHANGED << plugins, commands, result, panicMsg, attempts, started,
                  ipc, name, ret >>

\* .invoke_handler(tauri::generate_handler![greet]): the handler replaces
\* whatever handler the builder held and matches the one name greet.
InvokeHandler ==
  /\ pc = "opener"
  /\ pc' = "handler"
  /\ commands' = {"greet"}
  /\ UNCHANGED << plugins, result, panicMsg, attempts, started, ipc, name, ret >>

\* .run(context), the app cannot be built: Builder::run returns Err.
BuilderRunFails ==
  /\ pc = "handler"
  /\ \E e \in Errors : result' = e
  /\ attempts' = attempts + 1
  /\ pc' = "expect"
  /\ UNCHANGED << plugins, commands, panicMsg, started, ipc, name, ret >>

\* Variant of BuilderRunStarts: Builder::run hands back Ok(()) at once
\* instead of staying in the event loop.
BuilderRunReturnsOk ==
  /\ pc = "handler"
  /\ result' = "Ok"
  /\ attempts' = attempts + 1
  /\ pc' = "expect"
  /\ UNCHANGED << plugins, commands, panicMsg, started, ipc, name, ret >>

\* .run(context), the app is built: the call enters the event loop and
\* stays in it.
BuilderRunStarts ==
  /\ pc = "handler"
  /\ attempts' = attempts + 1
  /\ started' = TRUE
  /\ pc' = "event_loop"
  /\ UNCHANGED << plugins, commands, result, panicMsg, ipc, name, ret >>

\* Variant of ExitLoop: the end of the loop starts run over.
ExitLoopRestarts ==
  /\ pc = "event_loop"
  /\ current = 0
  /\ pc' = "start"
  /\ UNCHANGED << plugins, commands, result, panicMsg, attempts, started,
                  ipc, name, ret >>

\* The host application exits: the runtime ends the process from inside
\* the event loop, on the thread that runs the commands, so no greet call
\* is on the stack.
ExitLoop ==
  /\ pc = "event_loop"
  /\ current = 0
  /\ pc' = "exited"
  /\ UNCHANGED << plugins, commands, result, panicMsg, attempts, started,
                  ipc, name, ret >>

\* Variant of Expect: an Err sends run back to Builder::run.
ExpectRetries ==
  /\ pc = "expect"
  /\ IF result = "Ok"
       THEN pc' = "returned" /\ UNCHANGED panicMsg
       ELSE pc' = "handler" /\ UNCHANGED panicMsg
  /\ UNCHANGED << plugins, commands, result, attempts, started, ipc, name, ret >>

\* .expect("error while running tauri application"): Ok(()) is unwrapped
\* and run returns; Err(e) panics with the message and the error.
Expect ==
  /\ pc = "expect"
  /\ IF result = "Ok"
       THEN pc' = "returned" /\ UNCHANGED panicMsg
       ELSE pc' = "panicked" /\ panicMsg' = << ExpectMsg, result >>
  /\ UNCHANGED << plugins, commands, result, attempts, started, ipc, name, ret >>

\* ------------------------------------------------ the invoke handler
\* The front end posts a request; there is a front end only while the
\* event loop runs.
Invoke ==
  /\ pc = "event_loop"
  /\ Len(requests) < MaxInvokes
  /\ \E r \in Requests : requests' = Append(requests, r)
  /\ UNCHANGED << runtime, responses, current, name, ret >>

Pending == {id \in 1..Len(requests) : id \notin DOMAIN responses /\ id # current}

\* Variant of Route: the handler matches every name.
RouteWildcard(cmds, req) ==
  IF cmds = {} THEN "not_found"
  ELSE IF req.hasName THEN "call" ELSE "invalid_args"

\* Variant of Route: an empty name is refused as an invalid argument.
RouteValidating(cmds, req) ==
  IF req.cmd \notin cmds THEN "not_found"
  ELSE IF req.hasName /\ req.name # << >> THEN "call" ELSE "invalid_args"

\* generate_handler![greet] with #[tauri::command]: the request's command
\* name is matched against the listed commands; a match deserialises the
\* argument `name` from the payload and calls greet; no match leaves the
\* request unhandled.
Route(cmds, req) ==
  IF req.cmd \notin cmds THEN "not_found"
  ELSE IF req.hasName THEN "call" ELSE "invalid_args"

\* The event loop hands one pending request to the invoke handler. The
\* handler runs on the event loop's thread: one request at a time.
Dispatch ==
  /\ pc = "event_loop"
  /\ current = 0
  /\ \E id \in Pending :
       LET req == requests[id]
           how == Route(commands, req)
       IN  IF how = "call"
           THEN /\ current' = id
                /\ name' = req.name
                /\ UNCHANGED responses
           ELSE /\ responses' = (id :> Err(how)) @@ responses
                /\ UNCHANGED << current, name >>
  /\ UNCHANGED << runtime, requests, ret >>

\* Variant of GreetReturn: the command takes itself off the command table.
GreetReturnUnregisters ==
  /\ current # 0
  /\ ret' = greet(name)
  /\ responses' = (current :> Ok(greet(name))) @@ responses
  /\ current' = 0
  /\ commands' = {}
  /\ UNCHANGED << pc, plugins, result, panicMsg, attempts, started,
                  requests, name >>

\* Variant of GreetReturn: the argument is read from a buffer that the
\* latest request overwrote.
GreetReturnSharedBuffer ==
  /\ current # 0
  /\ ret' = greet(requests[Len(requests)].name)
  /\ responses' = (current :> Ok(greet(requests[Len(requests)].name))) @@ responses
  /\ current' = 0
  /\ UNCHANGED << runtime, requests, name >>

\* greet's body runs to its end and the command's resolver answers the
\* request with the returned String.
GreetReturn ==
  /\ current # 0
  /\ ret' = greet(name)
  /\ responses' = (current :> Ok(greet(name))) @@ responses
  /\ current' = 0
  /\ UNCHANGED << runtime, requests, name >>

Next ==
  \/ BuilderDefault
  \/ PluginShell
  \/ PluginHttp
  \/ PluginOpener
  \/ InvokeHandler
  \/ BuilderRunFails
  \/ BuilderRunStarts
  \/ Expect
  \/ ExitLoop
  \/ Invoke
  \/ Dispatch
  \/ GreetReturn

Spec == Init /\ [][Next]_vars

\* The event loop keeps running the call it has made: a greet call that
\* is on the stack runs to its return.
FairSpec == Spec /\ WF_vars(GreetReturn)

\* ------------------------------------------------- greet called directly
\* greet called as a plain function, outside any runtime, on each text of
\* the harness in turn.
GreetInit ==
  /\ pc = "start"
  /\ plugins = << >>
  /\ commands = {}
  /\ result = "none"
  /\ panicMsg = << >>
  /\ attempts = 0
  /\ started = FALSE
  /\ requests = << >>
  /\ responses = << >>
  /\ current = 0
  /\ name \in Strings(Chars, MaxLen)
  /\ ret = << >>

GreetCall ==
  /\ ret = << >>
  /\ ret' = greet(name)
  /\ UNCHANGED << runtime, ipc, name >>

GreetAgain ==
  /\ ret # << >>
  /\ name' \in Strings(Chars, MaxLen)
  /\ ret' = << >>
  /\ UNCHANGED << runtime, ipc >>

GreetNext == GreetCall \/ GreetAgain

GreetSpec == GreetInit /\ [][GreetNext]_vars

\* ================================================================ claims
\* The two literal pieces around the placeholder, written out.
Hello == << "H","e","l","l","o",","," " >>
Greeted ==
  << "!"," ","Y","o","u","'","v","e"," ","b","e","e","n"," ",
     "g","r","e","e","t","e","d"," ","f","r","o","m"," ","R","u","s","t","!" >>

FullPlugins == << "shell", "http", "opener" >>

Resolved == DOMAIN responses

\* C1: for every text s, greet(s) is exactly "Hello, " followed by s,
\* unchanged, followed by "! You've been greeted from Rust!".
C1_GreetExact == ret # << >> => ret = Hello \o name \o Greeted

\* greet has returned for a text with a leading blank, markup and a
\* control character.
C1_Witness == ret # << >> /\ name = << " ", "<", "\n" >>

\* C2: two greet invocations with the same input are answered with the
\* same output, and neither the call of greet nor its return changes the
\* runtime's state (position, plugins, command table, result, panic).
C2_GreetPure ==
  /\ [](\A i \in Resolved : \A j \in Resolved :
          (/\ responses[i].kind = "ok"
           /\ responses[j].kind = "ok"
           /\ requests[i].name = requests[j].name)
             => responses[i].val = responses[j].val)
  /\ [][current # current' => UNCHANGED runtime]_vars

\* Two different requests with the same name have both been answered by
\* greet.
C2_Witness ==
  /\ Resolved = {1, 2}
  /\ responses[1].kind = "ok"
  /\ responses[2].kind = "ok"
  /\ requests[1].name = requests[2].name

\* C3: once the builder chain is through, run is blocked in the event loop
\* of a started runtime (until that loop ends the process), or the failure
\* to start is on its way to the fatal panic or has panicked; run is never
\* left by a normal return.
C3_TwoOutcomes ==
  /\ pc \in Positions
  /\ pc # "returned"
  /\ pc \in BuilderPositions => ~started /\ result = "none"
  /\ pc \notin BuilderPositions =>
       \/ pc = "event_loop" /\ started /\ result = "none"
       \/ pc = "exited" /\ started /\ result = "none"
       \/ pc \in {"expect", "panicked"} /\ ~started /\ result \in Errors

\* run is blocked in the event loop of a runtime that started at the first
\* attempt.
C3_Witness == pc = "event_loop" /\ started /\ attempts = 1 /\ requests = << >>

\* The component's state as the specification names it.
Lifecycle ==
  IF pc = "event_loop" THEN "running"
  ELSE IF pc \in BuilderPositions \cup {"expect"} THEN "not_started"
  ELSE IF pc \in {"panicked", "exited"} THEN "process_ended"
  ELSE "other"

LineOrder ==
  << "start", "default", "shell", "http", "opener", "handler" >>

Rank(p) ==
  IF p \in BuilderPositions
    THEN CHOOSE i \in 1..Len(LineOrder) : LineOrder[i] = p
  ELSE IF p \in {"event_loop", "expect"} THEN Len(LineOrder) + 1
  ELSE Len(LineOrder) + 2

\* C4: while the process lives the component is "not started" or
\* "running"; "running" is entered only from "not started", at the run
\* call; once "running" the component is never "not started" again; and
\* no step takes back a line of the bootstrap.
C4_OneWay ==
  /\ [](Lifecycle # "other")
  /\ [][Lifecycle = "running" => Lifecycle' # "not_started"]_vars
  /\ [][started => started' /\ pc' \notin BuilderPositions]_vars
  /\ [][(Lifecycle' = "running" /\ Lifecycle # "running")
          => (pc = "handler" /\ ~started)]_vars
  /\ [][pc' # pc => Rank(pc') > Rank(pc)]_vars

\* The runtime has run and the host application has left it.
C4_Witness == pc = "exited" /\ started /\ attempts = 1

\* C5: a failed start is fatal and is not retried: Builder::run is entered
\* once, a failure leads only to the panic carrying the expect message,
\* and the runtime never runs after it.
C5_FatalNoRetry ==
  /\ attempts <= 1
  /\ result \in Errors =>
       pc \in {"expect", "panicked"} /\ ~started /\ attempts = 1
  /\ pc = "panicked" =>
       /\ result \in Errors
       /\ panicMsg = << "error while running tauri application", result >>
  /\ panicMsg # << >> => pc = "panicked"

\* The start failed in the setup and the process panicked.
C5_Witness == pc = "panicked" /\ result = "Setup" /\ panicMsg # << >>

\* C6: the command table holds the one name greet; a request for greet is
\* handed to greet (and answered with a text when it carries a text), and
\* a request for any other name is never handed to greet and is answered
\* with an error.
C6_OnlyGreet ==
  /\ commands \subseteq {"greet"}
  /\ Rank(pc) >= Rank("handler") => commands = {"greet"}
  /\ current # 0 =>
       /\ requests[current].cmd = "greet"
       /\ requests[current].hasName
       /\ name = requests[current].name
  /\ \A id \in Resolved :
       IF requests[id].cmd = "greet"
       THEN IF requests[id].hasName
            THEN responses[id].kind = "ok" /\ responses[id].val # << >>
            ELSE responses[id].kind = "err" /\ responses[id].err = "invalid_args"
       ELSE /\ responses[id].kind = "err"
            /\ responses[id].err = "not_found"
            /\ responses[id].val = << >>

\* A request for greet was answered with a text and a request for a name
\* that differs in case only with an error.
C6_Witness ==
  \E i \in Resolved : \E j \in Resolved :
    /\ requests[i].cmd = "greet" /\ responses[i].kind = "ok"
    /\ requests[j].cmd = "Greet" /\ requests[j].hasName
    /\ responses[j].kind = "err"

C8_BootstrapOrder ==
  /\ Len(plugins) <= Len(FullPlugins)
  /\ plugins = SubSeq(FullPlugins, 1, Len(plugins))
  /\ commands # {} => plugins = FullPlugins
  /\ (started \/ pc = "event_loop") =>
       plugins = FullPlugins /\ commands = {"greet"}
  /\ (requests # << >> \/ current # 0 \/ Resolved # {}) =>
       started /\ plugins = FullPlugins /\ commands = {"greet"}

\* The runtime is running and has answered a greet request.
C8_Witness ==
  /\ pc = "event_loop"
  /\ \E id \in Resolved : responses[id].kind = "ok"

\* C9: a greet call that is on the stack can always return and does
\* return; an answer once sent is never changed by a later invocation;
\* and every answer is the greeting of its own request's argument,
\* whatever the order of dispatch and completion.
C9_SyncReturn ==
  /\ \A id \in 1..MaxInvokes : (current = id) ~> (id \in Resolved)
  /\ [](current # 0 => ENABLED GreetReturn)
  /\ [](\A id \in Resolved :
          responses[id].kind = "ok" =>
            responses[id].val = greet(requests[id].name))
  /\ [][\A id \in Resolved :
          id \in DOMAIN responses' /\ responses'[id] = responses[id]]_vars

\* The second request was answered by greet before the first, which
\* carries another name, was dispatched.
C9_Witness ==
  /\ Len(requests) >= 2
  /\ 2 \in Resolved
  /\ 1 \notin Resolved
  /\ current = 0
  /\ responses[2].kind = "ok"
  /\ requests[1].cmd = "greet"
  /\ requests[1].hasName
  /\ requests[1].name # requests[2].name

====
